---------------------------- MODULE Spec2Model ----------------------------
(***************************************************************************)
(* Simulated-annealing 0/1 knapsack solver (assignment/knapsac.py).        *)
(*                                                                         *)
(* One call of solve() is a state machine: Begin (lines 85-95), one Step   *)
(* per pass of the while loop (lines 98-122) and Return (line 125).  The   *)
(* locals of solve() are the fields of the record run[r]; two calls        *)
(* r = 1, 2 exist so that two solves on identically seeded generators can  *)
(* be compared.                                                            *)
(*                                                                         *)
(* Numbers.  Item values and sizes are integers (np.int64 arrays).         *)
(* Temperatures are Python floats (IEEE-754 binary64), kept as m * 2^e     *)
(* with m odd (or 0): products are exact while the mantissa fits, and are  *)
(* rounded half-to-even onto the subnormal grid 2^MinExp below it, as the  *)
(* hardware does.  np.exp is strictly increasing, so an acceptance         *)
(* probability exp(x) is kept by its exponent x (a rational), together     *)
(* with the special results 0.0, inf and nan; a uniform draw p is kept     *)
(* the same way (p = exp(y), or p = 0.0).                                   *)
(***************************************************************************)
EXTENDS Integers, Sequences, FiniteSets

VARIABLES n_items, valus, sizes, max_size, max_iter, start_temperature, alpha,
          runs, run, rnd, tape

vars == <<n_items, valus, sizes, max_size, max_iter, start_temperature, alpha,
          runs, run, rnd, tape>>

inputs == <<n_items, valus, sizes, max_size, max_iter, start_temperature, alpha, runs>>

-----------------------------------------------------------------------------
(* Bounds of the model *)

MaxItems == 2

MaxIter == 10

(* Program constants *)

\* interval = (int)(max_iter / 10)
IntervalDivisor == 10

\* exponent of the smallest positive binary64 (5e-324 = 2^-1074)
MinExp == -1074

\* np.exp(x) is 0.0 for x <= -746 and inf for x >= 710 (binary64)
ExpUnderflow == 746

ExpOverflow == 710

\* below 2^-64 a temperature makes every non-zero quotient exceed both
HugeQuotientExp == -64

-----------------------------------------------------------------------------
(* Floats m * 2^e *)

RECURSIVE Pow(_, _)
Pow(b, k) == IF k <= 0 THEN 1 ELSE b * Pow(b, k - 1)

Abs(x) == IF x < 0 THEN -x ELSE x

Sign(x) == IF x < 0 THEN -1 ELSE IF x > 0 THEN 1 ELSE 0

RECURSIVE Norm(_, _)
Norm(m, e) ==
    IF m = 0 THEN [m |-> 0, e |-> 0]
    ELSE IF m % 2 = 0 THEN Norm(m \div 2, e + 1)
    ELSE [m |-> m, e |-> e]

\* |m| / q rounded to the nearest integer, ties to even, sign kept
RoundHalfEven(m, q) ==
    LET a == Abs(m)
        lo == a \div q
        r2 == 2 * (a % q)
        up == IF r2 > q THEN 1
              ELSE IF r2 < q THEN 0
              ELSE lo % 2
    IN Sign(m) * (lo + up)

\* x * y in binary64: exact, then rounded onto the subnormal grid if below it
FMul(x, y) ==
    LET m == x.m * y.m
        e == x.e + y.e
    IN IF m = 0 \/ e >= MinExp THEN Norm(m, e)
       ELSE Norm(RoundHalfEven(m, Pow(2, MinExp - e)), MinExp)

\* x <= y for two floats whose exponents are close
FLeq(x, y) ==
    LET lo == IF x.e < y.e THEN x.e ELSE y.e
    IN x.m * Pow(2, x.e - lo) <= y.m * Pow(2, y.e - lo)

FPositive(x) == x.m > 0

\* x < 1.0
FBelowOne(x) == x.e < 0 /\ x.m < Pow(2, -x.e)

-----------------------------------------------------------------------------
(* Values: v of total_valu_size is the Python float 0.0 until an np.int64  *)
(* is added to it, and is reset to the Python float 0.0 on overflow of the *)
(* capacity; np tells the two types apart (they divide by 0.0 differently).*)

PyZero == [x |-> 0, np |-> FALSE]

NoError == "none"

\* for item in range(n): lines 24-28, from position item (0-based) on
RECURSIVE PackLoop(_, _, _, _, _)
PackLoop(packing, vs, ss, item, acc) ==
    IF item >= Len(packing) \/ acc.err # NoError THEN acc
    ELSE IF packing[item + 1] = 1
    THEN IF item >= Len(vs) \/ item >= Len(ss)
         THEN [acc EXCEPT !.err = "IndexError"]
         ELSE PackLoop(packing, vs, ss, item + 1,
                       [v |-> [x |-> acc.v.x + vs[item + 1], np |-> TRUE],
                        s |-> acc.s + ss[item + 1],
                        err |-> NoError])
    ELSE PackLoop(packing, vs, ss, item + 1, acc)

\* if s >= max_size (the comparison of line 31 made non-strict)
TotalValuSizeGe(packing, vs, ss, cap) ==
    LET t == PackLoop(packing, vs, ss, 0, [v |-> PyZero, s |-> 0, err |-> NoError])
    IN IF t.err = NoError /\ t.s >= cap THEN [t EXCEPT !.v = PyZero] ELSE t

total_valu_size(packing, vs, ss, cap) ==
    LET t == PackLoop(packing, vs, ss, 0, [v |-> PyZero, s |-> 0, err |-> NoError])
    IN IF t.err = NoError /\ t.s > cap THEN [t EXCEPT !.v = PyZero] ELSE t

-----------------------------------------------------------------------------
(* adjacent(packing, rnd) with the index i already drawn.  result is the   *)
(* returned array, packing the caller's array after the call.              *)

Flip(b) == IF b = 0 THEN 1 ELSE IF b = 1 THEN 0 ELSE b

\* result = packing (no np.copy): the flip lands in the caller's array too
AdjacentInPlace(packing, i) ==
    LET result == [packing EXCEPT ![i + 1] = Flip(@)]
    IN [result |-> result, packing |-> result]

\* the elif branch (lines 61-62) left out: a packed item is never removed
AdjacentNoRemove(packing, i) ==
    [result |-> [packing EXCEPT ![i + 1] = IF @ = 0 THEN 1 ELSE @],
     packing |-> packing]

adjacent(packing, i) ==
    [result |-> [packing EXCEPT ![i + 1] = Flip(@)],
     packing |-> packing]

-----------------------------------------------------------------------------
(* Acceptance probability and uniform draws *)

NoNumber == [k |-> "none", num |-> 0, den |-> 1]

FNan == [k |-> "nan", num |-> 0, den |-> 1]

FZero == [k |-> "zero", num |-> 0, den |-> 1]

FInf == [k |-> "inf", num |-> 0, den |-> 1]

\* exp(num / den), den > 0
ExpOf(num, den) == [k |-> "exp", num |-> num, den |-> den]

\* np.exp of the exact quotient num / den
NpExp(num, den) ==
    IF num <= -ExpUnderflow * den THEN FZero
    ELSE IF num >= ExpOverflow * den THEN FInf
    ELSE ExpOf(num, den)

\* np.exp((adj_v - curr_valu) / curr_temperature), line 110
AcceptP(adj_v, curr_valu, t) ==
    LET d == adj_v.x - curr_valu.x
        isnp == adj_v.np \/ curr_valu.np
        sx == Sign(d) * Sign(t.m)
    IN IF t.m = 0
       THEN IF ~isnp THEN [err |-> "ZeroDivisionError", a |-> NoNumber]
            ELSE [err |-> NoError,
                  a |-> IF d = 0 THEN FNan ELSE IF d < 0 THEN FZero ELSE FInf]
       ELSE IF d = 0 THEN [err |-> NoError, a |-> ExpOf(0, 1)]
       ELSE IF t.e <= HugeQuotientExp
       THEN [err |-> NoError, a |-> IF sx < 0 THEN FZero ELSE FInf]
       ELSE [err |-> NoError,
             a |-> NpExp(sx * Abs(d) * Pow(2, -t.e), Abs(t.m) * Pow(2, t.e))]

\* p < accept_p, line 112
Less(p, a) ==
    CASE a.k = "nan" -> FALSE
      [] a.k = "zero" -> FALSE
      [] a.k = "inf" -> TRUE
      [] OTHER -> IF p.k = "zero" THEN TRUE
                  ELSE p.num * a.den < a.num * p.den

-----------------------------------------------------------------------------
(* The random source.  A generator seeded with a given seed yields one     *)
(* fixed sequence of words; tape holds the part of that sequence that a    *)
(* generator has already produced and another one, seeded alike, has not   *)
(* yet consumed, and rnd[g] is generator g's position in it.  A word not   *)
(* yet produced by any generator is arbitrary.                             *)

\* the words a fresh call can return, one for each value of the call
IndexWords(n) == 0 .. (IF n > 0 THEN n - 1 ELSE 0)

\* rnd.randint(n): an index in 0 .. n-1
RandInt(w, n) == w % n

\* the uniform draws 0.0, exp(-1/2) and exp(-2)
PTable == <<FZero, ExpOf(-1, 2), ExpOf(-2, 1)>>

\* rnd.random(): a float in [0.0, 1.0)
Random(w) == PTable[(w % Len(PTable)) + 1]

UniformWords == 0 .. (Len(PTable) - 1)

\* every solve draws from generator 1 (process-wide random state)
RndShared(r) == 1

\* the generator solve(r) draws from: its own rnd argument (lines 65, 100, 111)
RndOf(r) == r

-----------------------------------------------------------------------------
(* Inputs *)

F(m, e) == Norm(m, e)

\* item tables (their first len items are used) and capacities: in the first
\* the full packing is too big, in the second every packing of two items fits
Catalogs ==
    { [valus |-> <<2, 1, 2, 1>>, sizes |-> <<2, 1, 1, 2>>, max_size |-> 2],
      [valus |-> <<0, 2, 1, 3>>, sizes |-> <<1, 1, 2, 1>>, max_size |-> 2] }

\* 1.0, 1.5e-323 (three times the smallest subnormal), 0.0, -1.0
StartTemperatures == {F(1, 0), F(3, MinExp), F(0, 0), F(-1, 0)}

\* 0.5, 0.75, 1.0
Alphas == {F(1, -1), F(3, -2), F(1, 0)}

\* iteration counts below the report divisor
ShortRuns == {0, 3}

-----------------------------------------------------------------------------
(* solve() *)

Ones(n) == [k \in 1 .. n |-> 1]

\* (int)(x / y) for y > 0: truncation towards zero
IntDiv(x, y) == IF x >= 0 THEN x \div y ELSE -((-x) \div y)

Fresh ==
    [pc |-> "start", at |-> 0,
     curr_temperature |-> F(0, 0), curr_packing |-> <<>>,
     curr_valu |-> PyZero, curr_size |-> 0,
     iteration |-> 0, interval |-> 0,
     adj_packing |-> <<>>, adj_v |-> PyZero, adj_size |-> 0,
     accept_p |-> NoNumber, p |-> NoNumber,
     i |-> -1, branch |-> "none", ndraws |-> 0,
     prev_packing |-> <<>>, prev_valu |-> PyZero, prev_temperature |-> F(0, 0)]

Raise(s, name, line) == [s EXCEPT !.pc = name, !.at = line]

\* lines 85-95
Setup(s) ==
    LET ones == Ones(n_items)
        t == total_valu_size(ones, valus, sizes, max_size)
        s1 == [s EXCEPT !.curr_temperature = start_temperature,
                        !.curr_packing = ones]
    IN IF t.err # NoError THEN Raise(s1, t.err, 27)
       ELSE [s1 EXCEPT !.curr_valu = t.v, !.curr_size = t.s,
                       !.iteration = 0,
                       !.interval = IntDiv(max_iter, IntervalDivisor),
                       !.pc = "loop"]

\* lines 116-122: the progress report, cooling and the iteration counter
Cool(s) ==
    IF s.interval = 0 THEN Raise(s, "ZeroDivisionError", 117)
    ELSE [s EXCEPT !.curr_temperature = FMul(s.curr_temperature, alpha),
                   !.iteration = s.iteration + 1]

\* lines 103-114; w is the word rnd.random() would return
Accept(s, w) ==
    IF s.adj_v.x > s.curr_valu.x
    THEN [s EXCEPT !.curr_packing = s.adj_packing, !.curr_valu = s.adj_v,
                   !.branch = "better"]
    ELSE LET ap == AcceptP(s.adj_v, s.curr_valu, s.curr_temperature)
         IN IF ap.err # NoError THEN Raise(s, ap.err, 110)
            ELSE LET s1 == [s EXCEPT !.accept_p = ap.a, !.p = Random(w),
                                     !.ndraws = s.ndraws + 1]
                 IN IF Less(s1.p, s1.accept_p)
                    THEN [s1 EXCEPT !.curr_packing = s.adj_packing,
                                    !.curr_valu = s.adj_v,
                                    !.branch = "accepted"]
                    ELSE [s1 EXCEPT !.branch = "rejected"]

\* lines 100-101: the candidate and its value; w1 is the generator's next word
Candidate(s, w1) ==
    LET n == Len(s.curr_packing)
        s0 == [s EXCEPT !.prev_packing = s.curr_packing,
                        !.prev_valu = s.curr_valu,
                        !.prev_temperature = s.curr_temperature,
                        !.branch = "none", !.ndraws = 0, !.i = -1,
                        !.accept_p = NoNumber, !.p = NoNumber]
    IN IF n <= 0 THEN Raise(s0, "ValueError", 54)
       ELSE LET i == RandInt(w1, n)
                adj == adjacent(s.curr_packing, i)
                t == total_valu_size(adj.result, valus, sizes, max_size)
                s1 == [s0 EXCEPT !.i = i, !.ndraws = 1,
                                 !.curr_packing = adj.packing,
                                 !.adj_packing = adj.result]
            IN IF t.err # NoError THEN Raise(s1, t.err, 27)
               ELSE [s1 EXCEPT !.adj_v = t.v, !.adj_size = t.s]

\* lines 103-122 after the candidate; w2 is the word after w1
Decide(s, w2) ==
    IF s.pc # "loop" THEN s
    ELSE LET s2 == Accept(s, w2)
         IN IF s2.pc # "loop" THEN s2 ELSE Cool(s2)

\* one pass of the while loop, lines 98-122
LoopBody(s, w1, w2) == Decide(Candidate(s, w1), w2)

\* the pass reaches rnd.random() of line 111
DrawsP(s) ==
    /\ s.pc = "loop"
    /\ ~(s.adj_v.x > s.curr_valu.x)
    /\ AcceptP(s.adj_v, s.curr_valu, s.curr_temperature).err = NoError

Live(q) == run[q].pc \in {"start", "loop"}

\* the two solves are run in step: a solve starts a pass of its loop only
\* when the other one is not behind it
InStep(r) == \A q \in runs : Live(q) => run[r].iteration <= run[q].iteration

Min(S) == CHOOSE x \in S : \A y \in S : x <= y

Begin(r) ==
    /\ r \in runs
    /\ run[r].pc = "start"
    /\ run' = [run EXCEPT ![r] = Setup(run[r])]
    /\ UNCHANGED <<inputs, rnd, tape>>

Step(r) ==
    /\ r \in runs
    /\ run[r].pc = "loop"
    /\ run[r].iteration < max_iter
    /\ InStep(r)
    /\ LET g == RndOf(r)
           k == rnd[g]
       IN \E w1 \in IF k + 1 <= Len(tape) THEN {tape[k + 1]}
                    ELSE IndexWords(Len(run[r].curr_packing)) :
          \E w2 \in IF k + 2 <= Len(tape) THEN {tape[k + 2]}
                    ELSE IF DrawsP(Candidate(run[r], w1)) THEN UniformWords
                    ELSE {0} :
            LET s == LoopBody(run[r], w1, w2)
                drawn == SubSeq(<<w1, w2>>, 1, s.ndraws)
                produced == SubSeq(tape, 1, k) \o drawn
                longer == IF Len(produced) >= Len(tape) THEN produced ELSE tape
                rnd1 == [rnd EXCEPT ![g] = k + s.ndraws]
                done == Min({rnd1[RndOf(q)] : q \in runs})
            IN /\ run' = [run EXCEPT ![r] = s]
               /\ tape' = SubSeq(longer, done + 1, Len(longer))
               /\ rnd' = [h \in DOMAIN rnd |->
                            IF h \in {RndOf(q) : q \in runs} THEN rnd1[h] - done
                            ELSE rnd1[h]]
    /\ UNCHANGED inputs

\* line 125
Return(r) ==
    /\ r \in runs
    /\ run[r].pc = "loop"
    /\ run[r].iteration >= max_iter
    /\ run' = [run EXCEPT ![r].pc = "returned"]
    /\ UNCHANGED <<inputs, rnd, tape>>

InitInputs ==
    /\ \E c \in Catalogs, len \in 0 .. MaxItems :
         /\ valus = SubSeq(c.valus, 1, len)
         /\ sizes = SubSeq(c.sizes, 1, len)
         /\ max_size = c.max_size
         /\ n_items \in {len - 1, len, len + 1} \cap Nat
    /\ max_iter \in ShortRuns \cup (IntervalDivisor .. MaxIter)
    /\ start_temperature \in StartTemperatures
    /\ alpha \in Alphas
    /\ run = [r \in {1, 2} |-> Fresh]
    /\ rnd = [g \in {1, 2} |-> 0]
    /\ tape = <<>>

\* one call of solve
Init == InitInputs /\ runs = {1}

Next == Begin(1) \/ Step(1) \/ Return(1)

Spec == Init /\ [][Next]_vars

\* two calls of solve on the same inputs, their generators seeded alike
InitPair == InitInputs /\ runs = {1, 2}

NextPair == \E r \in {1, 2} : Begin(r) \/ Step(r) \/ Return(r)

SpecPair == InitPair /\ [][NextPair]_vars

-----------------------------------------------------------------------------
(* Properties *)

\* the configuration the specification calls valid: max_iter a positive
\* integer, start_temperature > 0, alpha in (0,1), one value and one size per item
ValidConfig ==
    /\ max_iter > 0
    /\ FPositive(start_temperature)
    /\ FPositive(alpha) /\ FBelowOne(alpha)
    /\ n_items = Len(valus) /\ n_items = Len(sizes)

RECURSIVE SumOver(_, _)
SumOver(f, S) ==
    IF S = {} THEN 0
    ELSE LET k == CHOOSE j \in S : TRUE
         IN f[k] + SumOver(f, S \ {k})

Included(packing) == {k \in 1 .. Len(packing) : packing[k] = 1}

\* the last pass of solve r called adjacent and evaluated its result
Evaluated(r) == r \in runs /\ run[r].i >= 0 /\ run[r].at # 27

Hamming(a, b) == Cardinality({k \in 1 .. Len(a) : a[k] # b[k]})

\* curr_temperature of solve r is start_temperature * alpha^iteration exactly
ExactTemperature(r) ==
    run[r].curr_temperature =
        Norm(start_temperature.m * Pow(alpha.m, run[r].iteration),
             start_temperature.e + run[r].iteration * alpha.e)

(* C1: the evaluator returns the true sum of the sizes of the included     *)
(* items, and the sum of their values if that size is within the capacity, *)
(* 0 otherwise -- for the initial packing and for every candidate.         *)
C1_EvaluatorSums ==
    /\ run[1].pc = "loop" /\ run[1].iteration = 0 /\ run[1].i = -1 =>
         /\ run[1].curr_size = SumOver(sizes, 1 .. n_items)
         /\ run[1].curr_valu.x = IF run[1].curr_size <= max_size
                                 THEN SumOver(valus, 1 .. n_items) ELSE 0
    /\ Evaluated(1) =>
         /\ run[1].adj_size = SumOver(sizes, Included(run[1].adj_packing))
         /\ run[1].adj_v.x = IF run[1].adj_size <= max_size
                             THEN SumOver(valus, Included(run[1].adj_packing))
                             ELSE 0

C1_Witness ==
    /\ Evaluated(1)
    /\ run[1].adj_size > max_size
    /\ SumOver(valus, Included(run[1].adj_packing)) > 0
    /\ run[1].adj_v.x = 0

(* C2: with a valid configuration and at least one item, solve does not    *)
(* abort and returns after exactly max_iter passes of the loop.            *)
C2_RunsMaxIterPasses ==
    ValidConfig /\ n_items >= 1 =>
        /\ run[1].pc \in {"start", "loop", "returned"}
        /\ run[1].pc = "returned" => run[1].iteration = max_iter

(* C4: two solves on the same inputs whose generators yield the same       *)
(* sequence are in the same state whenever they are at the same pass, and  *)
(* end alike; a pass consumes one draw if the candidate is strictly        *)
(* better and two (the index, then p) otherwise.                           *)
C4_Deterministic ==
    /\ run[1].pc = "loop" /\ run[2].pc = "loop"
         /\ run[1].iteration = run[2].iteration
         => run[1] = run[2] /\ rnd[1] = rnd[2]
    /\ ~Live(1) /\ ~Live(2) => run[1] = run[2] /\ rnd[1] = rnd[2]
    /\ \A r \in runs :
         /\ run[r].branch = "better" =>
              run[r].ndraws = 1 /\ run[r].adj_v.x > run[r].prev_valu.x
         /\ run[r].branch \in {"accepted", "rejected"} =>
              run[r].ndraws = 2 /\ ~(run[r].adj_v.x > run[r].prev_valu.x)

C4_Witness ==
    /\ run[1].pc = "returned" /\ run[2].pc = "returned"
    /\ run[1].iteration >= IntervalDivisor
    /\ run[1].branch = "rejected"
    /\ run[1].curr_packing # Ones(n_items)
    /\ run[1] = run[2]

(* C5: adjacent returns a packing of the same length that differs from its *)
(* argument in exactly one position, the drawn index, whose bit is flipped.*)
C5_SingleFlip ==
    Evaluated(1) \/ (run[1].i >= 0 /\ run[1].at = 27) =>
        /\ run[1].i \in 0 .. (Len(run[1].prev_packing) - 1)
        /\ Len(run[1].adj_packing) = Len(run[1].prev_packing)
        /\ Hamming(run[1].adj_packing, run[1].prev_packing) = 1
        /\ run[1].adj_packing[run[1].i + 1] = 1 - run[1].prev_packing[run[1].i + 1]

C5_Witness ==
    /\ Evaluated(1)
    /\ run[1].prev_packing[run[1].i + 1] = 1
    /\ run[1].adj_packing[run[1].i + 1] = 0
    /\ run[1].iteration > 1

(* C6: an invalid configuration is rejected before the loop: no draw, no   *)
(* acceptance decision, no returned packing.                               *)
C6_InvalidConfigRejected ==
    ~ValidConfig =>
        /\ run[1].pc # "returned"
        /\ run[1].i = -1
        /\ run[1].ndraws = 0
        /\ run[1].branch = "none"

(* C7: with zero items solve raises no error, every visited packing is     *)
(* empty and the empty packing is returned.                                *)
C7_ZeroItems ==
    n_items = 0 =>
        /\ run[1].pc \in {"start", "loop", "returned"}
        /\ run[1].curr_packing = <<>>

(* C8: with alpha in (0,1) and a positive start temperature, before the    *)
(* pass with index k the temperature is start_temperature * alpha^k, and   *)
(* it never increases.                                                     *)
C8_GeometricCooling ==
    ValidConfig /\ run[1].pc \in {"loop", "returned"} =>
        /\ ExactTemperature(1)
        /\ run[1].iteration > 0 =>
             FLeq(run[1].curr_temperature, run[1].prev_temperature)

(* C9: adjacent leaves its argument unchanged: after a rejected candidate  *)
(* (or an abort of the pass) curr_packing holds the bits it held before,   *)
(* and after an accepted one it is the candidate.                          *)
C9_InputUnchanged ==
    run[1].i >= 0 =>
        /\ run[1].branch \in {"rejected", "none"} =>
             run[1].curr_packing = run[1].prev_packing
        /\ run[1].branch \in {"better", "accepted"} =>
             run[1].curr_packing = run[1].adj_packing
        /\ run[1].adj_packing # run[1].prev_packing

C9_Witness ==
    /\ run[1].branch = "rejected"
    /\ run[1].pc = "loop"
    /\ run[1].curr_packing = run[1].prev_packing
    /\ run[1].curr_packing # Ones(n_items)

(* C10: the candidate replaces the current packing iff it is strictly      *)
(* better or p < accept_p; a candidate of equal value is always accepted;  *)
(* curr_valu is the value of curr_packing after every pass.                *)
C10_AcceptanceRule ==
    ValidConfig /\ Evaluated(1) =>
        /\ run[1].adj_v.x > run[1].prev_valu.x => run[1].branch = "better"
        /\ run[1].adj_v.x = run[1].prev_valu.x => run[1].branch = "accepted"
        /\ run[1].branch = "accepted" => Less(run[1].p, run[1].accept_p)
        /\ run[1].branch = "rejected" => ~Less(run[1].p, run[1].accept_p)
        /\ run[1].curr_valu =
             total_valu_size(run[1].curr_packing, valus, sizes, max_size).v

=============================================================================
